---- MODULE Spec2Model ----
(***************************************************************************)
(* Model of the Indeed.ca automation extension:                            *)
(*   - IndeedServiceWorker (background/service-worker.js lines 6-379)      *)
(*   - IndeedAutomation content script (service-worker.js lines 385-994)   *)
(*   - PopupController (popup/popup.js)                                    *)
(* Every await on chrome.storage is a point where other handlers of the    *)
(* same service worker may run; a storage operation takes effect           *)
(* atomically at the step that resumes the awaiting handler.               *)
(***************************************************************************)
EXTENDS Integers, Sequences, FiniteSets, Bags, TLC

\* ------------------------------------------------------------------ bounds
\* number of runtime messages the service worker receives in one run
MaxMsgs == 3
\* checkCompanionStatus messages among them
MaxChecks == 1
\* user actions and incoming messages one tab sees in one run
MaxStimuli == 4
\* form elements on a page whose detection is examined
MaxElements == 2
\* last value of the millisecond clock (Date.now())
MaxNow == 1
\* clock ticks that make one calendar day (Date.toDateString())
TicksPerDay == 1

\* --------------------------------------------------------- program values
Null == "null"
Undefined == "undefined"
\* a userProfile that is null (cache) or undefined (storage key absent)
NoProfile == [absent |-> TRUE]

\* getDefaultProfile().preferences.maxApplicationsPerDay
DefaultMaxApplicationsPerDay == 10

\* this.whitelist of the service worker, whitelistDomains of the content script
whitelist == <<"ca.indeed.com", "indeed.ca">>

JobIds == {"jk1", Undefined}

Dates == 0..(MaxNow \div TicksPerDay)

\* new Date().toDateString() at clock value t
ToDateString(t) == t \div TicksPerDay

VARIABLES
  now,          \* the clock, Date.now()
  counter,      \* chrome.storage.local applications_<date>, 0 when absent
  appRecords,   \* keys application_<jobId>_<now> present in chrome.storage.local
  syncProfile,  \* chrome.storage.sync userProfile, NoProfile when absent
  swProfile,    \* IndeedServiceWorker.userProfile (the cache)
  loadPc,       \* position of the constructor's loadUserProfile()
  tasks,        \* handleMessage invocations, by arrival number
  received,     \* number of runtime messages received so far
  limitNotices, \* dailyLimitReached notifications sent to the tabs
  responses,    \* sendResponse calls, by arrival number, in order
  tabUrl,       \* URL of the tab the content script runs in (window.location.href)
  cs,           \* the IndeedAutomation instance and the page it acts on
  csInbox,      \* startAutoFill messages sent to the tab and not yet delivered
  gate,         \* the last domain decision taken: by whom, on which URL, allow or deny
  popupMessage, \* the message the popup shows (showMessage)
  stimuli,      \* user actions and incoming messages the tab has seen so far
  localCompanionUrl, \* IndeedServiceWorker.localCompanionUrl
  companionStore,    \* chrome.storage.local companionStatus and companionPort
  checks,            \* checkLocalCompanion runs: 0 the constructor's, i message i's
  uploadNotices,     \* fileUploadFailed notifications sent to the tabs
  syncSettings,      \* chrome.storage.sync settings
  jobRecords,        \* job ids with a key job_<jobId> in chrome.storage.local
  jobNotices,        \* jobAnalyzed notifications sent to the tabs
  analysis           \* the content script's job analysis and the skills it uses

swVars == <<now, counter, appRecords, syncProfile, swProfile, loadPc, tasks,
            received, limitNotices, responses>>

csVars == <<tabUrl, cs, csInbox, gate, popupMessage, stimuli>>

coVars == <<localCompanionUrl, companionStore, checks, uploadNotices>>

exVars == <<syncSettings, jobRecords, jobNotices, analysis>>

vars == <<swVars, coVars, csVars, exVars>>

\* ------------------------------------------------------------- profiles
Preferences(auto, confirm, max) ==
  [autoSubmit |-> auto, requireConfirmation |-> confirm, maxApplicationsPerDay |-> max]

Profile(first, auth, resume, prefs) ==
  [firstName |-> first, workAuthorization |-> auth, resumePath |-> resume,
   preferences |-> prefs]

\* a default profile that lets submissions through unasked and allows 25 a day
getDefaultProfileLax ==
  Profile("", "", "", Preferences(TRUE, FALSE, 25))

getDefaultProfile ==
  Profile("", "", "", Preferences(FALSE, TRUE, DefaultMaxApplicationsPerDay))

\* profiles a saveUserProfile message can carry (popup saveProfile builds them)
SavedProfiles ==
  { Profile("Al", "ci", "", Preferences(FALSE, TRUE, m)) : m \in 1..2 }

\* result.userProfile || this.getDefaultProfile()
StoredOrDefault(stored) == IF stored = NoProfile THEN getDefaultProfile ELSE stored

\* ------------------------------------------------------ local companion
\* the ports checkLocalCompanion probes, in order
ports == <<8001, 8002, 8003, 8080>>

\* `${port}`: the decimal digits of a number
Digit(d) == SubSeq("0123456789", d + 1, d + 1)

RECURSIVE NumberToString(_)
NumberToString(n) == IF n < 10 THEN Digit(n) ELSE NumberToString(n \div 10) \o Digit(n % 10)

\* a companion URL on every interface of the machine
AnyInterfaceUrl(port) == "http://0.0.0.0:" \o NumberToString(port)

\* `http://127.0.0.1:${port}`
LoopbackUrl(port) == "http://127.0.0.1:" \o NumberToString(port)

\* the arguments of a fetch(): the URL as base and path, the method, the
\* names of the headers and of the fields of the JSON body
Request(base, path, method, headers, body) ==
  [base |-> base, path |-> path, method |-> method, headers |-> headers,
   body |-> body]

\* no fetch in flight
NoRequest == Request("", "", "", {}, {})

\* a handleMessage invocation: the action, where it is, and its locals (the
\* fetch it awaits and how that ended among them)
NoTask == [kind |-> "none", pc |-> "idle", jobId |-> Undefined, stamp |-> 0,
           today |-> 0, count |-> 0, profile |-> NoProfile,
           request |-> NoRequest, outcome |-> "none", matchScore |-> 0]

\* fetchWithTimeout(`http://127.0.0.1:${port}/health`, 2000)
HealthRequest(port) == Request(LoopbackUrl(port), "/health", "GET", {}, {})

\* how a fetch ends: a response with ok true, a response with ok false, or
\* a rejection (network error, abort at the timeout)
FetchOutcomes == {"ok", "notok", "error"}

\* a checkLocalCompanion run: where it is, the port being probed (an index
\* into ports), and what it returned
NoCheck == [pc |-> "idle", idx |-> 0, result |-> FALSE]

\* a run that has just issued its first probe
StartedCheck == [pc |-> "probe", idx |-> 1, result |-> FALSE]

\* the constructor: the default URL, and init() has called checkLocalCompanion
InitCompanion ==
  /\ localCompanionUrl = "http://127.0.0.1:8001"
  /\ companionStore = [status |-> Undefined, port |-> 0]
  /\ checks = [r \in 0..MaxMsgs |-> IF r = 0 THEN StartedCheck ELSE NoCheck]
  /\ uploadNotices = 0

\* the settings chrome.runtime.onInstalled stores on installation
InstalledSettings ==
  [autoSubmitEnabled |-> FALSE, confirmBeforeSubmit |-> TRUE,
   maxDailyApplications |-> 10, companionPort |-> 8001]

\* the further storage keys after installation
InitStorage ==
  /\ syncSettings = InstalledSettings
  /\ jobRecords = {}
  /\ jobNotices = 0

\* sendResponse({success: true, ...})
Succeeded == [success |-> TRUE, error |-> ""]

\* sendResponse({success: false, error: message})
Failed(message) == [success |-> FALSE, error |-> message]

InitSW ==
  /\ now = 0
  /\ counter = [d \in Dates |-> 0]
  /\ appRecords = {}
  /\ syncProfile \in {NoProfile} \cup SavedProfiles
  /\ swProfile = NoProfile
  /\ loadPc = "get"
  /\ tasks = [i \in 1..MaxMsgs |-> NoTask]
  /\ received = 0
  /\ limitNotices = 0
  /\ responses = [i \in 1..MaxMsgs |-> <<>>]
  /\ InitCompanion
  /\ InitStorage

\* the clock advances
Tick ==
  /\ now < MaxNow
  /\ now' = now + 1
  /\ UNCHANGED <<counter, appRecords, syncProfile, swProfile, loadPc, tasks,
                 received, limitNotices, responses>>
  /\ UNCHANGED <<coVars, csVars, exVars>>

\* loadUserProfile(): the storage read issued by the constructor resolves
LoadUserProfile ==
  /\ loadPc = "get"
  /\ loadPc' = "done"
  /\ swProfile' = StoredOrDefault(syncProfile)
  /\ UNCHANGED <<now, counter, appRecords, syncProfile, tasks, received,
                 limitNotices, responses>>
  /\ UNCHANGED <<coVars, csVars, exVars>>

\* a handler that has returned: its locals are gone, the date it counted on is kept
Returned(task) ==
  [NoTask EXCEPT !.kind = task.kind, !.pc = "done", !.today = task.today,
                 !.outcome = task.outcome]

\* ---------------------------------------------- handleMessage, by action
\* this.getUserProfile() called with the cache as it is: the profile it returns
\* at once, or NoProfile when it has to read chrome.storage.sync first
CachedProfile == swProfile

\* 'applicationSubmitted': logApplicationSubmission builds the record and issues
\* the write of application_<jobId>_<now>
ReceiveApplicationSubmitted(jobId) ==
  /\ received < MaxMsgs
  /\ received' = received + 1
  /\ tasks' = [tasks EXCEPT ![received + 1] =
                 [NoTask EXCEPT !.kind = "applicationSubmitted", !.pc = "rec",
                                !.jobId = jobId, !.stamp = now]]
  /\ UNCHANGED <<now, counter, appRecords, syncProfile, swProfile, loadPc,
                 limitNotices, responses>>
  /\ UNCHANGED <<coVars, csVars, exVars>>

\* the record write resolves; today and counterKey are computed and the
\* counter read is issued
RecordStored(i) ==
  /\ tasks[i].kind = "applicationSubmitted" /\ tasks[i].pc = "rec"
  /\ appRecords' = appRecords \cup {<<tasks[i].jobId, tasks[i].stamp>>}
  /\ tasks' = [tasks EXCEPT ![i].pc = "get", ![i].today = ToDateString(now)]
  /\ UNCHANGED <<now, counter, syncProfile, swProfile, loadPc, received,
                 limitNotices, responses>>
  /\ UNCHANGED <<coVars, csVars, exVars>>

\* const count = (result[counterKey] || 0) + 1
NextCount(stored) == stored + 1

\* the counter read resolves; the counter write is issued
CounterRead(i) ==
  /\ tasks[i].kind = "applicationSubmitted" /\ tasks[i].pc = "get"
  /\ tasks' = [tasks EXCEPT ![i].pc = "set",
                            ![i].count = NextCount(counter[tasks[i].today])]
  /\ UNCHANGED <<now, counter, appRecords, syncProfile, swProfile, loadPc,
                 received, limitNotices, responses>>
  /\ UNCHANGED <<coVars, csVars, exVars>>

\* the counter write resolves; getUserProfile() is called
CounterWritten(i) ==
  /\ tasks[i].kind = "applicationSubmitted" /\ tasks[i].pc = "set"
  /\ counter' = [counter EXCEPT ![tasks[i].today] = tasks[i].count]
  /\ tasks' = [tasks EXCEPT
                 ![i].pc = IF CachedProfile = NoProfile THEN "prof" ELSE "limit",
                 ![i].profile = CachedProfile]
  /\ UNCHANGED <<now, appRecords, syncProfile, swProfile, loadPc, received,
                 limitNotices, responses>>
  /\ UNCHANGED <<coVars, csVars, exVars>>

\* getUserProfile(): the read of chrome.storage.sync resolves and fills the cache
ProfileRead(i) ==
  /\ tasks[i].pc = "prof"
  /\ swProfile' = StoredOrDefault(syncProfile)
  /\ tasks' = [tasks EXCEPT ![i].pc = IF tasks[i].kind = "getUserProfile"
                                      THEN "respond" ELSE "limit",
                            ![i].profile = StoredOrDefault(syncProfile)]
  /\ UNCHANGED <<now, counter, appRecords, syncProfile, loadPc, received,
                 limitNotices, responses>>
  /\ UNCHANGED <<coVars, csVars, exVars>>

\* count >= profile.preferences.maxApplicationsPerDay
LimitReached(count, profile) == count >= profile.preferences.maxApplicationsPerDay

\* the daily-limit check, then sendResponse({success: true})
CheckLimit(i) ==
  /\ tasks[i].kind = "applicationSubmitted" /\ tasks[i].pc = "limit"
  /\ limitNotices' = IF LimitReached(tasks[i].count, tasks[i].profile)
                     THEN limitNotices + 1 ELSE limitNotices
  /\ tasks' = [tasks EXCEPT ![i] = Returned(tasks[i])]
  /\ responses' = [responses EXCEPT ![i] = Append(@, Succeeded)]
  /\ UNCHANGED <<now, counter, appRecords, syncProfile, swProfile, loadPc,
                 received>>
  /\ UNCHANGED <<coVars, csVars, exVars>>

\* 'saveUserProfile': the cache is set and the write to chrome.storage.sync issued
ReceiveSaveUserProfile(profile) ==
  /\ received < MaxMsgs
  /\ received' = received + 1
  /\ swProfile' = profile
  /\ tasks' = [tasks EXCEPT ![received + 1] =
                 [NoTask EXCEPT !.kind = "saveUserProfile", !.pc = "save",
                                !.profile = profile]]
  /\ UNCHANGED <<now, counter, appRecords, syncProfile, loadPc, limitNotices,
                 responses>>
  /\ UNCHANGED <<coVars, csVars, exVars>>

\* the profile write resolves, then sendResponse({success: true})
ProfileSaved(i) ==
  /\ tasks[i].kind = "saveUserProfile" /\ tasks[i].pc = "save"
  /\ syncProfile' = tasks[i].profile
  /\ tasks' = [tasks EXCEPT ![i] = Returned(tasks[i])]
  /\ responses' = [responses EXCEPT ![i] = Append(@, Succeeded)]
  /\ UNCHANGED <<now, counter, appRecords, swProfile, loadPc, received,
                 limitNotices>>
  /\ UNCHANGED <<coVars, csVars, exVars>>

\* 'getUserProfile': answered from the cache, or after reading the storage
ReceiveGetUserProfile ==
  /\ received < MaxMsgs
  /\ received' = received + 1
  /\ tasks' = [tasks EXCEPT ![received + 1] =
                 [NoTask EXCEPT !.kind = "getUserProfile",
                                !.pc = IF CachedProfile = NoProfile
                                       THEN "prof" ELSE "respond",
                                !.profile = CachedProfile]]
  /\ UNCHANGED <<now, counter, appRecords, syncProfile, swProfile, loadPc,
                 limitNotices, responses>>
  /\ UNCHANGED <<coVars, csVars, exVars>>

\* sendResponse({success: true, data: profile})
ProfileAnswered(i) ==
  /\ tasks[i].kind = "getUserProfile" /\ tasks[i].pc = "respond"
  /\ tasks' = [tasks EXCEPT ![i] = Returned(tasks[i])]
  /\ responses' = [responses EXCEPT ![i] = Append(@, Succeeded)]
  /\ UNCHANGED <<now, counter, appRecords, syncProfile, swProfile, loadPc,
                 received, limitNotices>>
  /\ UNCHANGED <<coVars, csVars, exVars>>

\* a message without data
NoJobData == [absent |-> TRUE]

\* the data a jobDataExtracted message can carry
JobDatas ==
  {NoJobData} \cup {[jobId |-> j, matchScore |-> sc] : j \in JobIds, sc \in {0, 50}}

\* error.message of the TypeError jobData.jobId raises when jobData is undefined
JobIdOfUndefined == "Cannot read properties of undefined (reading 'jobId')"

\* 'jobDataExtracted': processJobData(data) issues the write of job_<jobId>,
\* or throws at jobData.jobId and the catch of handleMessage answers
ReceiveJobDataExtracted(data) ==
  /\ received < MaxMsgs
  /\ received' = received + 1
  /\ IF data = NoJobData
     THEN /\ tasks' = [tasks EXCEPT ![received + 1] =
                         [NoTask EXCEPT !.kind = "jobDataExtracted", !.pc = "done",
                                        !.outcome = "threw"]]
          /\ responses' = [responses EXCEPT ![received + 1] =
                             Append(@, Failed(JobIdOfUndefined))]
     ELSE /\ tasks' = [tasks EXCEPT ![received + 1] =
                         [NoTask EXCEPT !.kind = "jobDataExtracted", !.pc = "job",
                                        !.jobId = IF data.jobId = Undefined
                                                  THEN NumberToString(now)
                                                  ELSE data.jobId,
                                        !.matchScore = data.matchScore]]
          /\ UNCHANGED responses
  /\ UNCHANGED <<now, counter, appRecords, syncProfile, swProfile, loadPc,
                 limitNotices>>
  /\ UNCHANGED <<coVars, csVars, exVars>>

\* the write of job_<jobId> resolves; jobAnalyzed is sent to the tabs when the
\* data has a match score; then sendResponse({success: true})
JobStored(i) ==
  /\ tasks[i].kind = "jobDataExtracted" /\ tasks[i].pc = "job"
  /\ jobRecords' = jobRecords \cup {tasks[i].jobId}
  /\ jobNotices' = IF tasks[i].matchScore # 0 THEN jobNotices + 1 ELSE jobNotices
  /\ tasks' = [tasks EXCEPT ![i] = Returned(tasks[i])]
  /\ responses' = [responses EXCEPT ![i] = Append(@, Succeeded)]
  /\ UNCHANGED <<now, counter, appRecords, syncProfile, swProfile, loadPc,
                 received, limitNotices>>
  /\ UNCHANGED <<syncSettings, analysis>>
  /\ UNCHANGED <<coVars, csVars>>

\* the cases of the switch in handleMessage
KnownActions ==
  {"getUserProfile", "saveUserProfile", "jobDataExtracted", "formFieldsDetected",
   "uploadFile", "takeScreenshot", "applicationSubmitted", "openSidePanel",
   "checkCompanionStatus"}

\* actions sent to the service worker that its switch has no case for
UnknownActions == {"settingsUpdated"}

\* a handleMessage that leaves a message of an unknown action unanswered
DropUnknown(action) ==
  /\ received < MaxMsgs
  /\ received' = received + 1
  /\ tasks' = [tasks EXCEPT ![received + 1] =
                 [NoTask EXCEPT !.kind = action, !.pc = "done"]]
  /\ UNCHANGED <<now, counter, appRecords, syncProfile, swProfile, loadPc,
                 limitNotices, responses>>
  /\ UNCHANGED <<coVars, csVars>>

\* the default case: sendResponse({success: false, error: 'Unknown action'})
AnswerUnknown(action) ==
  /\ received < MaxMsgs
  /\ received' = received + 1
  /\ tasks' = [tasks EXCEPT ![received + 1] =
                 [NoTask EXCEPT !.kind = action, !.pc = "done"]]
  /\ responses' = [responses EXCEPT ![received + 1] =
                     Append(@, Failed("Unknown action"))]
  /\ UNCHANGED <<now, counter, appRecords, syncProfile, swProfile, loadPc,
                 limitNotices>>
  /\ UNCHANGED <<coVars, csVars>>

\* a message of an unknown action arrives
ReceiveUnknownAction(action) ==
  /\ AnswerUnknown(action)
  /\ UNCHANGED exVars

\* values the popup's max-applications input can be changed to
SettingValues == {1, 3}

\* popup updateSetting('maxDailyApplications', n): the settings are written to
\* chrome.storage.sync, then settingsUpdated is sent to the service worker,
\* which answers it in the default case
UpdateSetting(n) ==
  /\ syncSettings' = [syncSettings EXCEPT !.maxDailyApplications = n]
  /\ AnswerUnknown("settingsUpdated")
  /\ UNCHANGED <<jobRecords, jobNotices, analysis>>

NextQuota ==
  \/ Tick
  \/ LoadUserProfile
  \/ \E j \in JobIds : ReceiveApplicationSubmitted(j)
  \/ \E i \in 1..MaxMsgs : RecordStored(i)
  \/ \E i \in 1..MaxMsgs : CounterRead(i)
  \/ \E i \in 1..MaxMsgs : CounterWritten(i)
  \/ \E i \in 1..MaxMsgs : ProfileRead(i)
  \/ \E i \in 1..MaxMsgs : CheckLimit(i)


NextProfile ==
  \/ LoadUserProfile
  \/ \E i \in 1..MaxMsgs : ProfileRead(i)
  \/ \E p \in SavedProfiles : ReceiveSaveUserProfile(p)
  \/ \E i \in 1..MaxMsgs : ProfileSaved(i)
  \/ ReceiveGetUserProfile
  \/ \E i \in 1..MaxMsgs : ProfileAnswered(i)

\* ------------------------------------- handleMessage: companion requests
\* fetch(`${this.localCompanionUrl}/upload`, ...) of handleFileUpload
UploadRequest ==
  Request(localCompanionUrl, "/upload", "POST", {"Content-Type"},
          {"file_path", "input_selector"})

\* fetch(`${this.localCompanionUrl}/screenshot`, ...) of takeScreenshot
ScreenshotRequest ==
  Request(localCompanionUrl, "/screenshot", "POST", {"Content-Type"}, {"filename"})

\* 'uploadFile': handleFileUpload issues its fetch
ReceiveUploadFile ==
  /\ received < MaxMsgs
  /\ received' = received + 1
  /\ tasks' = [tasks EXCEPT ![received + 1] =
                 [NoTask EXCEPT !.kind = "uploadFile", !.pc = "fetch",
                                !.request = UploadRequest]]
  /\ UNCHANGED <<now, counter, appRecords, syncProfile, swProfile, loadPc,
                 limitNotices, responses>>
  /\ UNCHANGED <<localCompanionUrl, companionStore, checks, uploadNotices>>
  /\ UNCHANGED <<csVars, exVars>>

\* the fetch ends. Anything but an ok response is thrown and caught inside
\* handleFileUpload, which notifies the tabs with fileUploadFailed; either way
\* handleFileUpload returns and handleMessage calls sendResponse({success: true})
UploadFetched(i, outcome) ==
  /\ tasks[i].kind = "uploadFile" /\ tasks[i].pc = "fetch"
  /\ uploadNotices' = IF outcome = "ok" THEN uploadNotices ELSE uploadNotices + 1
  /\ tasks' = [tasks EXCEPT ![i] = Returned([tasks[i] EXCEPT !.outcome = outcome])]
  /\ responses' = [responses EXCEPT ![i] = Append(@, Succeeded)]
  /\ UNCHANGED <<now, counter, appRecords, syncProfile, swProfile, loadPc,
                 received, limitNotices>>
  /\ UNCHANGED <<localCompanionUrl, companionStore, checks>>
  /\ UNCHANGED <<csVars, exVars>>

\* 'takeScreenshot': takeScreenshot issues its fetch
ReceiveTakeScreenshot ==
  /\ received < MaxMsgs
  /\ received' = received + 1
  /\ tasks' = [tasks EXCEPT ![received + 1] =
                 [NoTask EXCEPT !.kind = "takeScreenshot", !.pc = "fetch",
                                !.request = ScreenshotRequest]]
  /\ UNCHANGED <<now, counter, appRecords, syncProfile, swProfile, loadPc,
                 limitNotices, responses>>
  /\ UNCHANGED <<localCompanionUrl, companionStore, checks, uploadNotices>>
  /\ UNCHANGED <<csVars, exVars>>

\* the fetch ends. A response that is not ok is passed over, a rejection is
\* caught and logged inside takeScreenshot; either way takeScreenshot returns
\* and handleMessage calls sendResponse({success: true})
ScreenshotFetched(i, outcome) ==
  /\ tasks[i].kind = "takeScreenshot" /\ tasks[i].pc = "fetch"
  /\ tasks' = [tasks EXCEPT ![i] = Returned([tasks[i] EXCEPT !.outcome = outcome])]
  /\ responses' = [responses EXCEPT ![i] = Append(@, Succeeded)]
  /\ UNCHANGED <<now, counter, appRecords, syncProfile, swProfile, loadPc,
                 received, limitNotices>>
  /\ UNCHANGED coVars
  /\ UNCHANGED <<csVars, exVars>>

\* 'checkCompanionStatus': checkLocalCompanion is called and issues its first probe
ReceiveCheckCompanionStatus ==
  /\ received < MaxMsgs
  /\ Cardinality({r \in 1..MaxMsgs : checks[r].pc # "idle"}) < MaxChecks
  /\ received' = received + 1
  /\ tasks' = [tasks EXCEPT ![received + 1] =
                 [NoTask EXCEPT !.kind = "checkCompanionStatus", !.pc = "check"]]
  /\ checks' = [checks EXCEPT ![received + 1] = StartedCheck]
  /\ UNCHANGED <<now, counter, appRecords, syncProfile, swProfile, loadPc,
                 limitNotices, responses>>
  /\ UNCHANGED <<localCompanionUrl, companionStore, uploadNotices>>
  /\ UNCHANGED <<csVars, exVars>>

\* a probe loop that starts over at the first port after the last one failed
ProbeAgainFromFirst(r, outcome) ==
  /\ checks[r].pc = "probe"
  /\ IF outcome = "ok"
     THEN /\ localCompanionUrl' = LoopbackUrl(ports[checks[r].idx])
          /\ checks' = [checks EXCEPT ![r].pc = "store", ![r].result = TRUE]
     ELSE /\ checks' = [checks EXCEPT ![r].idx = (@ % Len(ports)) + 1]
          /\ UNCHANGED localCompanionUrl
  /\ UNCHANGED <<companionStore, uploadNotices>>
  /\ UNCHANGED swVars
  /\ UNCHANGED <<csVars, exVars>>

\* checkLocalCompanion: the probe of run r ends. On an ok response the URL is
\* set and the write of companionStatus and companionPort issued; otherwise
\* the next port is probed, or after the last one companionStatus false is written
ProbeAnswered(r, outcome) ==
  /\ checks[r].pc = "probe"
  /\ IF outcome = "ok"
     THEN /\ localCompanionUrl' = LoopbackUrl(ports[checks[r].idx])
          /\ checks' = [checks EXCEPT ![r].pc = "store", ![r].result = TRUE]
     ELSE IF checks[r].idx < Len(ports)
     THEN /\ checks' = [checks EXCEPT ![r].idx = @ + 1]
          /\ UNCHANGED localCompanionUrl
     ELSE /\ checks' = [checks EXCEPT ![r].pc = "store", ![r].result = FALSE]
          /\ UNCHANGED localCompanionUrl
  /\ UNCHANGED <<companionStore, uploadNotices>>
  /\ UNCHANGED swVars
  /\ UNCHANGED <<csVars, exVars>>

\* checkLocalCompanion: the storage write of run r resolves and the run
\* returns; for a checkCompanionStatus message handleMessage then calls
\* sendResponse({success: true, companionActive: status})
StatusStored(r) ==
  /\ checks[r].pc = "store"
  /\ companionStore' = IF checks[r].result
                       THEN [status |-> "true", port |-> ports[checks[r].idx]]
                       ELSE [companionStore EXCEPT !.status = "false"]
  /\ checks' = [checks EXCEPT ![r].pc = "done"]
  /\ IF r > 0
     THEN /\ tasks' = [tasks EXCEPT ![r] = Returned(tasks[r])]
          /\ responses' = [responses EXCEPT ![r] = Append(@, Succeeded)]
     ELSE UNCHANGED <<tasks, responses>>
  /\ UNCHANGED <<now, counter, appRecords, syncProfile, swProfile, loadPc,
                 received, limitNotices>>
  /\ UNCHANGED <<localCompanionUrl, uploadNotices>>
  /\ UNCHANGED <<csVars, exVars>>

\* the ports fix_extension_port.js probes, in order
fixPorts == <<8002, 8001, 8003, 8080>>

\* the ports force_port_detection.js probes, in order
forcePorts == <<8001, 8002, 8003, 8080, 8010>>

\* the fetch() calls in flight: those of the message handlers and the health
\* probes of the checkLocalCompanion runs
InFlightRequests ==
  {tasks[i].request : i \in {j \in 1..MaxMsgs : tasks[j].pc = "fetch"}}
    \cup {HealthRequest(ports[checks[r].idx]) :
            r \in {q \in 0..MaxMsgs : checks[q].pc = "probe"}}

\* fix_extension_port.js run in the service worker's console: the k-th of its
\* ports is the first to answer ok (none does for k past the last)
FixExtensionPort(k) ==
  /\ localCompanionUrl' = IF k > Len(fixPorts) THEN localCompanionUrl
                          ELSE LoopbackUrl(fixPorts[k])
  /\ UNCHANGED <<companionStore, checks, uploadNotices>>
  /\ UNCHANGED swVars
  /\ UNCHANGED <<csVars, exVars>>

\* force_port_detection.js run in the service worker's console: the k-th of
\* its ports is the first to answer ok; the URL and the stored status are set
\* and the health request repeated on the new URL
ForcePortDetection(k) ==
  /\ localCompanionUrl' = IF k > Len(forcePorts) THEN localCompanionUrl
                          ELSE LoopbackUrl(forcePorts[k])
  /\ companionStore' = IF k > Len(forcePorts) THEN companionStore
                       ELSE [status |-> "true", port |-> forcePorts[k]]
  /\ UNCHANGED <<checks, uploadNotices>>
  /\ UNCHANGED swVars
  /\ UNCHANGED <<csVars, exVars>>

NextCompanion ==
  \/ ReceiveUploadFile
  \/ \E i \in 1..MaxMsgs, o \in FetchOutcomes : UploadFetched(i, o)
  \/ ReceiveTakeScreenshot
  \/ \E i \in 1..MaxMsgs, o \in FetchOutcomes : ScreenshotFetched(i, o)
  \/ \E r \in 0..MaxMsgs, o \in FetchOutcomes : ProbeAnswered(r, o)
  \/ \E r \in 0..MaxMsgs : StatusStored(r)

NextPort ==
  \/ ReceiveCheckCompanionStatus
  \/ \E r \in 0..MaxMsgs, o \in FetchOutcomes : ProbeAnswered(r, o)
  \/ \E r \in 0..MaxMsgs : StatusStored(r)
  \/ \E k \in 1..(Len(fixPorts) + 1) : FixExtensionPort(k)
  \/ \E k \in 1..(Len(forcePorts) + 1) : ForcePortDetection(k)

\* ------------------------------------------------------------- strings
\* String.prototype.includes
Includes(s, sub) ==
  \E i \in 1..(Len(s) - Len(sub) + 1) : SubSeq(s, i, i + Len(sub) - 1) = sub

\* String.prototype.endsWith
EndsWith(s, suffix) ==
  Len(suffix) <= Len(s) /\ SubSeq(s, Len(s) - Len(suffix) + 1, Len(s)) = suffix

Min(S) == CHOOSE x \in S : \A y \in S : x <= y

\* the host of a URL: what follows "://" up to the next "/", "?" or "#"
HostOf(url) ==
  LET start == Min({i \in 1..(Len(url) - 2) : SubSeq(url, i, i + 2) = "://"}) + 3
      ends  == {j \in start..Len(url) : SubSeq(url, j, j) \in {"/", "?", "#"}}
      stop  == IF ends = {} THEN Len(url) + 1 ELSE Min(ends)
  IN SubSeq(url, start, stop - 1)

\* URLs a tab can show: every host with every path
Hosts == {"ca.indeed.com", "indeed.ca", "www.indeed.ca", "localhost", "evil.io",
          "indeed.ca.evil.io", "ca.indeed.com.evil.io", "indeed.com"}

Paths == {"", "/", "/apply?jk=a1", "/viewjob?jk=a1", "/jobs?q=dev",
          "/apply?r=indeed.ca", "/ca.indeed.com/apply?jk=a1"}

Urls == {"https://" \o h \o p : h \in Hosts, p \in Paths}

\* the URLs the tab of the content script is followed on
TabUrls ==
  { "https://ca.indeed.com/apply?jk=a1",
    "https://ca.indeed.com/viewjob?jk=a1",
    "https://localhost/apply?jk=a1",
    "https://evil.io/apply?r=indeed.ca" }

\* isWhitelistedDomain(url) of the service worker
isWhitelistedDomain(url) ==
  IF url = "" THEN FALSE
  ELSE \E i \in DOMAIN whitelist : Includes(url, whitelist[i])

\* the test popup.autoFill makes on the active tab's URL
PopupUrlAllowed(url) == Includes(url, "indeed.ca") \/ Includes(url, "ca.indeed.com")

\* extractJobId(url): url.match(/jk=([a-zA-Z0-9]+)/)
AlphaNum == {"a", "b", "c", "d", "e", "f", "g", "h", "i", "j", "k", "l", "m", "n",
             "o", "p", "q", "r", "s", "t", "u", "v", "w", "x", "y", "z",
             "0", "1", "2", "3", "4", "5", "6", "7", "8", "9"}

extractJobId(url) ==
  LET hits == {i \in 1..(Len(url) - 3) : /\ SubSeq(url, i, i + 2) = "jk="
                                         /\ SubSeq(url, i + 3, i + 3) \in AlphaNum}
  IN IF hits = {} THEN Null
     ELSE LET from == Min(hits) + 3
              stops == {j \in from..Len(url) : SubSeq(url, j, j) \notin AlphaNum}
              to == IF stops = {} THEN Len(url) ELSE Min(stops) - 1
          IN SubSeq(url, from, to)

\* ------------------------------------------------------------ the page
\* a profile value that is truthy and not a string (a number, an object)
NonString == "[not a string]"

\* keys of formFields that the model follows, in the order detectFormFields
\* inserts them
Keys == <<"firstName", "resume", "workAuth">>

KeySet == {Keys[i] : i \in DOMAIN Keys}

\* the selectors detectFormFields tries for each key, in order
Selectors(key) ==
  CASE key = "firstName" -> <<"input[name*=firstName]", "input[name*=first_name]",
                              "input[id*=firstName]", "input[placeholder*=First name]">>
    [] key = "resume"    -> <<"input[type=file][accept*=pdf]", "input[name*=resume]",
                              "input[id*=resume]">>
    [] key = "workAuth"  -> <<"select[name*=work_auth]", "select[name*=authorization]",
                              "input[name*=authorized]">>

\* notified is the value the element held when fillField last dispatched its
\* input, change and blur events
Element(type, visible, sels, options) ==
  [type |-> type, visible |-> visible, sels |-> sels, options |-> options,
   value |-> "", highlighted |-> FALSE, notified |-> Undefined]

\* pages: the form elements in document order, and whether the page has a
\* submit button of its own
PageWithSubmit ==
  [elements |-> << Element("text", TRUE, {"input[name*=firstName]"}, <<>>),
                   Element("file", TRUE, {"input[name*=resume]"}, <<>>),
                   Element("select-one", TRUE, {"select[name*=work_auth]"},
                           << [value |-> "pr", text |-> "permanent resident"],
                              [value |-> "cit", text |-> "citizen"] >>) >>,
   hasSubmit |-> TRUE]

PageWithoutSubmit ==
  [elements |-> << Element("text", TRUE, {"input[id*=firstName]"}, <<>>),
                   Element("text", TRUE, {"input[name*=authorized]"}, <<>>) >>,
   hasSubmit |-> FALSE]

Pages == {PageWithSubmit, PageWithoutSubmit}

\* profiles a userProfileLoaded message can carry
CsProfiles ==
  { Profile("Al", "c", "cv.pdf", Preferences(TRUE, FALSE, 1)),
    Profile("Al", "c", "cv.pdf", Preferences(FALSE, TRUE, 2)),
    Profile(NonString, "c", "cv.pdf", Preferences(FALSE, TRUE, 2)) }

\* actions the content script sends to the background
SentActions == {"getUserProfile", "contentScriptReady", "formFieldsDetected",
                "jobDataExtracted", "uploadFile", "takeScreenshot",
                "applicationSubmitted", "openSidePanel"}

\* the locals of one executeAutoFill run, with what it did field by field:
\* steps are the (key, value) pairs handed to fillField, in order; tried are
\* the ways of writing attempted on each field
NoFill == [ran |-> FALSE, filledCount |-> 0, errors |-> {}, attempted |-> {},
           escaped |-> FALSE, steps |-> <<>>,
           tried |-> [k \in KeySet |-> <<>>]]

\* sendToBackground(action, data)
sendToBackground(c, action) == [c EXCEPT !.sent[action] = @ + 1]

\* document.querySelector(selector): the first element in document order
querySelector(c, selector) ==
  LET hits == {i \in DOMAIN c.dom : selector \in c.dom[i].sels}
  IN IF hits = {} THEN 0 ELSE Min(hits)

\* findField(selectors): the element of the first selector whose first match
\* is visible, 0 for null
RECURSIVE findFieldFrom(_, _, _)
findFieldFrom(c, selectors, n) ==
  IF n > Len(selectors) THEN 0
  ELSE LET e == querySelector(c, selectors[n])
       IN IF e # 0 /\ c.dom[e].visible THEN e ELSE findFieldFrom(c, selectors, n + 1)

findField(c, selectors) == findFieldFrom(c, selectors, 1)

\* detectFormFields(): fills formFields, highlights what was found, reports it
detectFormFields(c) ==
  LET found == [k \in KeySet |-> findField(c, Selectors(k))]
      marked == [i \in DOMAIN c.dom |->
                   IF \E k \in KeySet : found[k] = i
                   THEN [c.dom[i] EXCEPT !.highlighted = TRUE] ELSE c.dom[i]]
  IN sendToBackground([c EXCEPT !.detected = TRUE, !.formFields = found,
                                !.dom = marked],
                      "formFieldsDetected")

\* createAutoFillControls() and attachControlEvents(): one more panel, and one
\* more listener on each button of the first panel
createAutoFillControls(c) == [c EXCEPT !.panels = @ + 1]

\* setupAutoFill()
setupAutoFill(c) ==
  IF c.userProfile = NoProfile THEN sendToBackground(c, "getUserProfile")
  ELSE createAutoFillControls(c)

\* handleApplicationPage()
handleApplicationPage(c) == setupAutoFill(detectFormFields(c))

\* handleJobDetailPage(): extractJobData() and showSidePanelButton()
handleJobDetailPage(c, url) ==
  [sendToBackground(c, "jobDataExtracted") EXCEPT !.jobData = extractJobId(url),
                                                  !.fabs = @ + 1]

\* detectPageType()
detectPageType(c, url) ==
  IF Includes(url, "/viewjob?") THEN handleJobDetailPage(c, url)
  ELSE IF Includes(url, "/apply?") THEN handleApplicationPage(c)
  ELSE c

\* the instance before init() has run
BlankCS(page) ==
  [userProfile |-> NoProfile, jobData |-> Null, detected |-> FALSE,
   formFields |-> [k \in KeySet |-> 0], dom |-> page.elements,
   hasSubmit |-> page.hasSubmit, typers |-> EmptyBag, panels |-> 0, fabs |-> 0,
   submitEnabled |-> FALSE, status |-> "", modalOpen |-> FALSE,
   confirms |-> 0, approved |-> 0, denied |-> 0, pageClicks |-> 0, ownClicks |-> 0,
   resultTimers |-> 0, navTimers |-> 0, sent |-> [a \in SentActions |-> 0],
   lastFill |-> NoFill, preview |-> [k \in KeySet |-> Undefined]]

\* new IndeedAutomation(): loadUserProfile(), setupEventListeners(),
\* injectSidePanel(), detectPageType()
Constructed(page, url) ==
  detectPageType(
    sendToBackground(sendToBackground(BlankCS(page), "getUserProfile"),
                     "contentScriptReady"),
    url)

NoGate == [by |-> "none", url |-> "", allow |-> FALSE]

\* a job analysis not yet made: userProfile.skills (absent when the profile
\* is null or has none), jobData.description, and what analyzeJobRequirements
\* will set
Analysis(skills, description) ==
  [skills |-> skills, description |-> description, analyzed |-> FALSE,
   requiredSkills |-> <<>>, scored |-> FALSE, matchScore |-> [nan |-> FALSE, value |-> 0]]

NoSkills == [present |-> FALSE, list |-> <<>>]

NoAnalysis == Analysis(NoSkills, "")

InitCS ==
  /\ tabUrl \in TabUrls
  /\ \E page \in Pages : cs = Constructed(page, tabUrl)
  /\ csInbox = 0
  /\ gate = NoGate
  /\ popupMessage = ""
  /\ stimuli = 0
  /\ analysis = NoAnalysis

\* the tab a service-worker run is observed with
QuietTab ==
  /\ tabUrl = "https://ca.indeed.com/apply?jk=a1"
  /\ cs = Constructed(PageWithSubmit, tabUrl)
  /\ csInbox = 0
  /\ gate = NoGate
  /\ popupMessage = ""
  /\ stimuli = 0

QuietCS == QuietTab /\ analysis = NoAnalysis

\* ------------------------------------------------------------ auto-fill
\* showStatus(message, type): the status line of the first panel, if there is one
showStatus(c, type) == IF c.panels > 0 THEN [c EXCEPT !.status = type] ELSE c

\* a getFieldValue that gives nothing for a field that already holds a value
getFieldValueOnce(c, key) ==
  IF c.formFields[key] # 0 /\ c.dom[c.formFields[key]].value # "" THEN ""
  ELSE IF key = "firstName" THEN c.userProfile.firstName
  ELSE IF key = "workAuth" THEN c.userProfile.workAuthorization
  ELSE ""

\* getFieldValue(fieldKey, field)
getFieldValue(c, key) ==
  CASE key = "firstName" -> c.userProfile.firstName
    [] key = "workAuth"  -> c.userProfile.workAuthorization
    [] OTHER             -> ""

\* the option a select is set to: the first whose value is the value or whose
\* text includes it; the cleared value when there is none
SelectedValue(options, value) ==
  LET hits == {i \in DOMAIN options :
                 options[i].value = value \/ Includes(options[i].text, value)}
  IN IF hits = {} THEN "" ELSE options[Min(hits)].value

\* simulateTyping(element, text) throws at text.split('') unless text is a string
simulateTypingThrows(text) == text = NonString

\* simulateTyping(element, text): the first character is typed at once, a timer
\* is armed for the next
simulateTyping(c, e, text) ==
  [c EXCEPT !.dom[e].value = @ \o SubSeq(text, 1, 1),
            !.typers = @ (+) SetToBag({[el |-> e, text |-> text, index |-> 1]})]

\* whether fillField(element, value) throws
fillFieldThrows(c, e, value) ==
  c.dom[e].type \notin {"file", "select-one"} /\ simulateTypingThrows(value)

\* element.dispatchEvent of input, change and blur at the end of fillField
dispatchChange(c, e) == [c EXCEPT !.dom[e].notified = c.dom[e].value]

\* fillField(element, value), up to where it returns or throws
fillField(c, e, value) ==
  IF c.dom[e].type = "file" THEN sendToBackground(c, "uploadFile")
  ELSE LET cleared == [c EXCEPT !.dom[e].value = ""]
       IN IF c.dom[e].type = "select-one"
          THEN dispatchChange(
                 [cleared EXCEPT !.dom[e].value = SelectedValue(c.dom[e].options, value)], e)
          ELSE IF simulateTypingThrows(value) THEN cleared
          ELSE dispatchChange(simulateTyping(cleared, e, value), e)

\* the one way fillField writes an element of a type: a file input goes to
\* the companion (an input made outside the page), anything else is written
\* through the DOM (element.value and dispatched events)
FillMode(type) ==
  IF type = "file" THEN "privileged-input" ELSE "structural-mutation"

\* one pass of the forEach over Object.entries(this.formFields), with its
\* try/catch around each field
FillOne(c, key) ==
  LET e == c.formFields[key]
      value == getFieldValue(c, key)
  IN IF e = 0 \/ value = "" THEN c
     ELSE LET written == fillField(c, e, value)
              after == [written EXCEPT
                          !.lastFill.steps = Append(@, <<key, value>>),
                          !.lastFill.tried[key] = <<FillMode(c.dom[e].type)>>]
          IN IF fillFieldThrows(c, e, value)
             THEN [after EXCEPT !.lastFill.attempted = @ \cup {key},
                                !.lastFill.errors = @ \cup {key}]
             ELSE [after EXCEPT !.lastFill.attempted = @ \cup {key},
                                !.lastFill.filledCount = @ + 1]

\* a loop whose first throwing field ends it
RECURSIVE FillUntilThrow(_, _)
FillUntilThrow(c, n) ==
  IF n > Len(Keys) \/ c.lastFill.errors # {} THEN c
  ELSE FillUntilThrow(FillOne(c, Keys[n]), n + 1)

RECURSIVE FillFrom(_, _)
FillFrom(c, n) == IF n > Len(Keys) THEN c ELSE FillFrom(FillOne(c, Keys[n]), n + 1)

\* what follows the loop: the status, and the submit button enabled when no
\* error was caught; without a panel there is no button, and enabling it throws
FinishFill(c) ==
  IF c.lastFill.errors # {} THEN showStatus(c, "warning: filled with errors")
  ELSE IF c.panels > 0
       THEN [showStatus(c, "success: filled") EXCEPT !.submitEnabled = TRUE]
       ELSE [c EXCEPT !.lastFill.escaped = TRUE]

\* executeAutoFill()
executeAutoFill(c) ==
  IF ~c.detected \/ c.userProfile = NoProfile
  THEN [showStatus(c, "error: missing form fields or user profile")
          EXCEPT !.lastFill = NoFill]
  ELSE FinishFill(FillFrom([c EXCEPT !.lastFill = [NoFill EXCEPT !.ran = TRUE]], 1))

\* a click on a button of the first panel runs every listener attached to it
RECURSIVE executeAutoFillTimes(_, _)
executeAutoFillTimes(c, n) ==
  IF n = 0 THEN c ELSE executeAutoFillTimes(executeAutoFill(c), n - 1)

\* previewAutoFill(): the values shown in the preview modal
previewAutoFill(c) ==
  [c EXCEPT !.modalOpen = TRUE,
            !.preview = [k \in KeySet |->
                           IF c.formFields[k] # 0 /\ c.userProfile # NoProfile
                           THEN getFieldValue(c, k) ELSE Undefined]]

\* ------------------------------------------------------------- submit
\* submitApplication(): the first submit-like button in document order is the
\* page's own, else the panel's submit-app button (its id contains "submit")
submitApplication(c) ==
  IF c.hasSubmit
  THEN [sendToBackground(c, "takeScreenshot") EXCEPT !.pageClicks = @ + 1,
                                                     !.resultTimers = @ + 1]
  ELSE IF c.panels > 0
  THEN [sendToBackground(c, "takeScreenshot") EXCEPT
          !.ownClicks = @ + 1,
          !.confirms = IF c.submitEnabled THEN @ + c.panels ELSE @,
          !.resultTimers = @ + 1]
  ELSE showStatus(c, "error: submit button not found")

\* submitApplication() runs although the dialog was dismissed
SubmitWhateverTheAnswer(c, confirmDialog) == submitApplication(c)

\* confirmAndSubmit(), after confirm() has returned confirmDialog
SubmitIfConfirmed(c, confirmDialog) ==
  IF confirmDialog THEN submitApplication(c) ELSE c

\* checkSubmissionResult()
checkSubmissionResult(c, isSuccess) ==
  IF isSuccess
  THEN showStatus(sendToBackground(c, "applicationSubmitted"), "success: submitted")
  ELSE showStatus(c, "warning: submission unclear")

\* ------------------------------------------------- content-script actions
\* while a confirm() dialog is open the page's script is blocked
Running == cs.confirms = 0

\* message 'userProfileLoaded'
UserProfileLoaded(profile) ==
  /\ Running /\ stimuli < MaxStimuli
  /\ stimuli' = stimuli + 1
  /\ cs' = LET c == [cs EXCEPT !.userProfile = profile]
           IN IF Includes(tabUrl, "/apply?") THEN setupAutoFill(c) ELSE c
  /\ UNCHANGED <<tabUrl, csInbox, gate, popupMessage>>
  /\ UNCHANGED <<swVars, coVars, exVars>>

\* popup.autoFill(): the profile test, the URL test, then startAutoFill is sent
PopupAutoFill ==
  /\ stimuli < MaxStimuli
  /\ stimuli' = stimuli + 1
  /\ IF StoredOrDefault(syncProfile).firstName = ""
     THEN /\ popupMessage' = "warning: save your profile first"
          /\ UNCHANGED <<csInbox, gate>>
     ELSE IF ~PopupUrlAllowed(tabUrl)
     THEN /\ popupMessage' = "warning: navigate to Indeed.ca first"
          /\ gate' = [by |-> "popup", url |-> tabUrl, allow |-> FALSE]
          /\ UNCHANGED csInbox
     ELSE /\ csInbox' = csInbox + 1
          /\ gate' = [by |-> "popup", url |-> tabUrl, allow |-> TRUE]
          /\ UNCHANGED popupMessage
  /\ UNCHANGED <<tabUrl, cs>>
  /\ UNCHANGED <<swVars, coVars, exVars>>

\* message 'startAutoFill' reaches the content script; its listener sends no
\* response, so the popup reports that auto-fill could not be started
StartAutoFill ==
  /\ Running /\ csInbox > 0
  /\ csInbox' = csInbox - 1
  /\ cs' = executeAutoFill(cs)
  /\ popupMessage' = "error: could not start auto-fill"
  /\ UNCHANGED <<tabUrl, gate, stimuli>>
  /\ UNCHANGED <<swVars, coVars, exVars>>

\* the user clicks Auto Fill in the panel
ClickAutoFill ==
  /\ Running /\ cs.panels > 0 /\ stimuli < MaxStimuli
  /\ stimuli' = stimuli + 1
  /\ cs' = executeAutoFillTimes(cs, cs.panels)
  /\ UNCHANGED <<tabUrl, csInbox, gate, popupMessage>>
  /\ UNCHANGED <<swVars, coVars, exVars>>

\* the user clicks Preview Fill in the panel (no preview modal being open)
ClickPreview ==
  /\ Running /\ cs.panels > 0 /\ ~cs.modalOpen /\ stimuli < MaxStimuli
  /\ stimuli' = stimuli + 1
  /\ cs' = previewAutoFill(cs)
  /\ UNCHANGED <<tabUrl, csInbox, gate, popupMessage>>
  /\ UNCHANGED <<swVars, coVars, exVars>>

\* the user clicks Proceed with Auto Fill in the preview modal
ClickConfirmFill ==
  /\ Running /\ cs.modalOpen
  /\ cs' = executeAutoFillTimes([cs EXCEPT !.modalOpen = FALSE], cs.panels)
  /\ UNCHANGED <<tabUrl, csInbox, gate, popupMessage, stimuli>>
  /\ UNCHANGED <<swVars, coVars, exVars>>

\* the user clicks Cancel in the preview modal
ClickCancelFill ==
  /\ Running /\ cs.modalOpen
  /\ cs' = [cs EXCEPT !.modalOpen = FALSE]
  /\ UNCHANGED <<tabUrl, csInbox, gate, popupMessage, stimuli>>
  /\ UNCHANGED <<swVars, coVars, exVars>>

\* a typing timer fires: typeChar()
TypeChar(t) ==
  /\ Running /\ BagIn(t, cs.typers)
  /\ LET rest == cs.typers (-) SetToBag({t})
         c == [cs EXCEPT !.typers = rest]
     IN cs' = IF t.index < Len(t.text)
              THEN [c EXCEPT !.dom[t.el].value = @ \o SubSeq(t.text, t.index + 1, t.index + 1),
                             !.typers = @ (+) SetToBag({[t EXCEPT !.index = @ + 1]})]
              ELSE c
  /\ UNCHANGED <<tabUrl, csInbox, gate, popupMessage, stimuli>>
  /\ UNCHANGED <<swVars, coVars, exVars>>

\* the user clicks Submit Application in the panel: every listener attached to
\* the button will open its confirm() dialog
ClickSubmit ==
  /\ Running /\ cs.panels > 0 /\ cs.submitEnabled /\ stimuli < MaxStimuli
  /\ stimuli' = stimuli + 1
  /\ cs' = [cs EXCEPT !.confirms = cs.panels]
  /\ UNCHANGED <<tabUrl, csInbox, gate, popupMessage>>
  /\ UNCHANGED <<swVars, coVars, exVars>>

\* the user approves the confirm() dialog
ApproveSubmit ==
  /\ cs.confirms > 0 /\ stimuli < MaxStimuli
  /\ stimuli' = stimuli + 1
  /\ cs' = SubmitIfConfirmed([cs EXCEPT !.confirms = @ - 1, !.approved = @ + 1], TRUE)
  /\ UNCHANGED <<tabUrl, csInbox, gate, popupMessage>>
  /\ UNCHANGED <<swVars, coVars, exVars>>

\* the user dismisses the confirm() dialog
DenySubmit ==
  /\ cs.confirms > 0
  /\ cs' = SubmitIfConfirmed([cs EXCEPT !.confirms = @ - 1, !.denied = @ + 1], FALSE)
  /\ UNCHANGED <<tabUrl, csInbox, gate, popupMessage, stimuli>>
  /\ UNCHANGED <<swVars, coVars, exVars>>

\* the timer armed by submitApplication fires
ResultTimer(isSuccess) ==
  /\ Running /\ cs.resultTimers > 0
  /\ cs' = checkSubmissionResult([cs EXCEPT !.resultTimers = @ - 1], isSuccess)
  /\ UNCHANGED <<tabUrl, csInbox, gate, popupMessage, stimuli>>
  /\ UNCHANGED <<swVars, coVars, exVars>>

\* the page changes its URL without reloading; the MutationObserver sees it
\* and arms the detectPageType timer
Navigate(url) ==
  /\ Running /\ stimuli < MaxStimuli
  /\ url # tabUrl /\ HostOf(url) = HostOf(tabUrl)
  /\ stimuli' = stimuli + 1
  /\ tabUrl' = url
  /\ cs' = [cs EXCEPT !.navTimers = @ + 1]
  /\ UNCHANGED <<csInbox, gate, popupMessage>>
  /\ UNCHANGED <<swVars, coVars, exVars>>

\* the detectPageType timer fires
DetectTimer ==
  /\ Running /\ cs.navTimers > 0
  /\ cs' = detectPageType([cs EXCEPT !.navTimers = @ - 1], tabUrl)
  /\ UNCHANGED <<tabUrl, csInbox, gate, popupMessage, stimuli>>
  /\ UNCHANGED <<swVars, coVars, exVars>>

\* chrome.tabs.onUpdated with status 'complete': isWhitelistedDomain(tab.url)
\* decides whether the tab is told 'pageReloaded' (which the content script ignores)
TabUpdated(url) ==
  /\ gate' = [by |-> "worker", url |-> url, allow |-> isWhitelistedDomain(url)]
  /\ UNCHANGED <<tabUrl, cs, csInbox, popupMessage, stimuli>>
  /\ UNCHANGED <<swVars, coVars, exVars>>

NextFill ==
  \/ \E p \in CsProfiles : UserProfileLoaded(p)
  \/ PopupAutoFill
  \/ StartAutoFill
  \/ ClickAutoFill
  \/ ClickPreview
  \/ ClickConfirmFill
  \/ ClickCancelFill
  \/ \E t \in BagToSet(cs.typers) : TypeChar(t)
  \/ ClickSubmit
  \/ ApproveSubmit
  \/ DenySubmit
  \/ \E b \in BOOLEAN : ResultTimer(b)
  \/ \E u \in TabUrls : Navigate(u)
  \/ DetectTimer

\* the popup's URL test applied to an active tab showing url
PopupChecksTab(url) ==
  /\ gate' = [by |-> "popup", url |-> url, allow |-> PopupUrlAllowed(url)]
  /\ UNCHANGED <<tabUrl, cs, csInbox, popupMessage, stimuli>>
  /\ UNCHANGED <<swVars, coVars, exVars>>

NextGate ==
  \/ \E u \in Urls \cup {""} : TabUpdated(u)
  \/ \E u \in Urls : PopupChecksTab(u)

\* the service worker handling applicationSubmitted messages
InitQuota == InitSW /\ QuietCS

SpecQuota == InitQuota /\ [][NextQuota]_vars

\* the service worker handling uploadFile and takeScreenshot messages while
\* the constructor's checkLocalCompanion runs
InitWorker == InitSW /\ syncProfile = NoProfile /\ QuietCS

SpecCompanion == InitWorker /\ [][NextCompanion]_vars

\* everything that sets localCompanionUrl: the checkLocalCompanion runs of the
\* constructor and of checkCompanionStatus messages, and the console scripts
InitPort == InitSW /\ syncProfile = NoProfile /\ QuietCS

SpecPort == InitPort /\ [][NextPort]_vars

\* checkLocalCompanion alone: the constructor's run and the runs started by
\* checkCompanionStatus messages. A probe always ends (fetchWithTimeout aborts
\* it after 2000 ms if no response came) and a storage write always resolves.
InitCheck == InitSW /\ syncProfile = NoProfile /\ QuietCS

NextCheck ==
  \/ ReceiveCheckCompanionStatus
  \/ \E r \in 0..MaxMsgs : \E o \in FetchOutcomes : ProbeAnswered(r, o)
  \/ \E r \in 0..MaxMsgs : StatusStored(r)

SpecCheck ==
  /\ InitCheck /\ [][NextCheck]_vars
  /\ \A r \in 0..MaxMsgs :
       /\ WF_vars(\E o \in FetchOutcomes : ProbeAnswered(r, o))
       /\ WF_vars(StatusStored(r))

\* the service worker handling applicationSubmitted messages with nothing
\* but defaults configured: no profile is stored
InitDefaults == InitSW /\ syncProfile = NoProfile /\ QuietCS

NextDefaults ==
  \/ LoadUserProfile
  \/ \E j \in JobIds : ReceiveApplicationSubmitted(j)
  \/ \E i \in 1..MaxMsgs : RecordStored(i)
  \/ \E i \in 1..MaxMsgs : CounterRead(i)
  \/ \E i \in 1..MaxMsgs : CounterWritten(i)
  \/ \E i \in 1..MaxMsgs : ProfileRead(i)
  \/ \E i \in 1..MaxMsgs : CheckLimit(i)

SpecDefaults == InitDefaults /\ [][NextDefaults]_vars

\* messages of every outcome: answered at once or after an await, with the
\* handler completing, swallowing a failure or throwing, and unknown actions
InitMessages == InitSW /\ QuietCS

NextMessages ==
  \/ LoadUserProfile
  \/ ReceiveGetUserProfile
  \/ \E i \in 1..MaxMsgs : ProfileRead(i)
  \/ \E i \in 1..MaxMsgs : ProfileAnswered(i)
  \/ \E d \in JobDatas : ReceiveJobDataExtracted(d)
  \/ \E i \in 1..MaxMsgs : JobStored(i)
  \/ \E a \in UnknownActions : ReceiveUnknownAction(a)
  \/ \E p \in SavedProfiles : ReceiveSaveUserProfile(p)
  \/ \E i \in 1..MaxMsgs : ProfileSaved(i)
  \/ ReceiveTakeScreenshot
  \/ \E i \in 1..MaxMsgs : \E o \in FetchOutcomes : ScreenshotFetched(i, o)

SpecMessages == InitMessages /\ [][NextMessages]_vars

\* ------------------------------------------------------- job analysis
UpperCase == "ABCDEFGHIJKLMNOPQRSTUVWXYZ"
LowerCase == "abcdefghijklmnopqrstuvwxyz"

\* String.prototype.toLowerCase, character by character
RECURSIVE toLowerCase(_)
toLowerCase(s) ==
  IF s = "" THEN ""
  ELSE LET ch == SubSeq(s, 1, 1)
           at == {i \in 1..Len(UpperCase) : SubSeq(UpperCase, i, i) = ch}
       IN (IF at = {} THEN ch ELSE SubSeq(LowerCase, Min(at), Min(at)))
            \o toLowerCase(SubSeq(s, 2, Len(s)))

\* commonSkills of analyzeJobRequirements
commonSkills ==
  <<"javascript", "python", "java", "react", "node.js", "sql", "aws", "docker",
    "kubernetes", "git", "agile", "scrum", "rest api">>

\* a JavaScript number that is an integer, and NaN
Number(n) == [nan |-> FALSE, value |-> n]
NaN == [nan |-> TRUE, value |-> 0]

\* Math.round(numerator / denominator * 100) for non-negative integers: 0 / 0
\* is NaN and Math.round(NaN) is NaN; halves round up
RoundedPercent(numerator, denominator) ==
  IF denominator = 0
  THEN IF numerator = 0 THEN NaN ELSE Number(0)
  ELSE Number((200 * numerator + denominator) \div (2 * denominator))

\* calculateMatchScore(requiredSkills) with this.userProfile?.skills = skills
calculateMatchScore(skills, requiredSkills) ==
  IF ~skills.present THEN Number(0)
  ELSE LET userSkills == [n \in DOMAIN skills.list |-> toLowerCase(skills.list[n])]
           Matched(skill) == \E n \in DOMAIN userSkills : Includes(userSkills[n], skill)
           matches == SelectSeq(requiredSkills, Matched)
       IN RoundedPercent(Len(matches), Len(requiredSkills))

\* analyzeJobRequirements()
analyzeJobRequirements(a) ==
  IF a.description = "" THEN [a EXCEPT !.analyzed = TRUE]
  ELSE LET description == toLowerCase(a.description)
           Found(skill) == Includes(description, toLowerCase(skill))
           foundSkills == SelectSeq(commonSkills, Found)
       IN [a EXCEPT !.analyzed = TRUE, !.requiredSkills = foundSkills,
                    !.scored = TRUE,
                    !.matchScore = calculateMatchScore(a.skills, foundSkills)]

\* job descriptions extractJobData can find, '' when the page has none
Descriptions ==
  {"", "Sales associate", "Java", "SQL and Git", "JavaScript", "React, AWS",
   "Python or Java; Docker", "Agile, Scrum, REST API, Node.js"}

\* userProfile.skills: absent, the default profile's [], and lists the popup saves
SkillLists ==
  {NoSkills} \cup
  {[present |-> TRUE, list |-> l] :
     l \in {<<>>, <<"Java">>, <<"JavaScript">>, <<"SQL", "Git">>, <<"aws">>,
            <<"Python", "React">>, <<"Agile", "Scrum", "Node.js">>,
            <<"Cooking">>}}

\* extractJobData(): analyzeJobRequirements() on the job data just extracted
AnalyzeJobRequirements ==
  /\ ~analysis.analyzed
  /\ analysis' = analyzeJobRequirements(analysis)
  /\ UNCHANGED <<syncSettings, jobRecords, jobNotices>>
  /\ UNCHANGED <<swVars, coVars, csVars>>

\* the profile handshake: the content script's getUserProfile messages reach
\* the service worker, which answers each through sendResponse; the content
\* script's sendToBackground passes no callback to chrome.runtime.sendMessage
\* and drops the promise it returns, so the answer changes nothing in the tab.
\* The tab navigates and runs detectPageType meanwhile.
HandshakeReceive ==
  /\ Cardinality({i \in 1..MaxMsgs : tasks[i].kind = "getUserProfile"})
       < cs.sent["getUserProfile"]
  /\ ReceiveGetUserProfile

InitHandshake == InitSW /\ InitCS

NextHandshake ==
  \/ LoadUserProfile
  \/ HandshakeReceive
  \/ \E i \in 1..MaxMsgs : ProfileRead(i)
  \/ \E i \in 1..MaxMsgs : ProfileAnswered(i)
  \/ \E url \in TabUrls : Navigate(url)
  \/ DetectTimer

\* every message sent is delivered, every storage read resolves, every
\* response is sent and every timer fires
SpecHandshake ==
  /\ InitHandshake /\ [][NextHandshake]_vars
  /\ WF_vars(LoadUserProfile)
  /\ WF_vars(HandshakeReceive)
  /\ \A i \in 1..MaxMsgs : WF_vars(ProfileRead(i)) /\ WF_vars(ProfileAnswered(i))
  /\ WF_vars(DetectTimer)

\* submissions while the popup changes the max-applications setting
InitSettings == InitSW /\ QuietCS

NextSettings ==
  \/ NextDefaults
  \/ \E n \in SettingValues : UpdateSetting(n)

SpecSettings == InitSettings /\ [][NextSettings]_vars

\* the service worker handling getUserProfile and saveUserProfile messages
InitProfile == InitSW /\ QuietCS

SpecProfile == InitProfile /\ [][NextProfile]_vars

\* the service worker as a tab's run leaves it aside: a profile is stored, and
\* chrome.storage.local holds today's counter of an earlier run, anything up
\* to the daily maximum
QuietSW ==
  /\ now = 0
  /\ syncProfile = Profile("Al", "ci", "", Preferences(FALSE, TRUE, 1))
  /\ counter \in { [d \in Dates |-> IF d = ToDateString(now) THEN n ELSE 0] :
                    n \in 0..syncProfile.preferences.maxApplicationsPerDay }
  /\ appRecords = {}
  /\ swProfile = NoProfile
  /\ loadPc = "get"
  /\ tasks = [i \in 1..MaxMsgs |-> NoTask]
  /\ received = 0
  /\ limitNotices = 0
  /\ responses = [i \in 1..MaxMsgs |-> <<>>]
  /\ InitCompanion
  /\ InitStorage

\* one tab: the content script, its page, the user and the popup
InitFill == QuietSW /\ InitCS

SpecFill == InitFill /\ [][NextFill]_vars

\* form elements a page can hold: a first-name input, an input whose name
\* holds both "resume" and "firstName", and a resume file input, each of them
\* displayed or hidden
DetectCatalog ==
  { Element(t[1], v, t[2], <<>>) :
      t \in { <<"text", {"input[name*=firstName]"}>>,
              <<"text", {"input[name*=firstName]", "input[name*=resume]"}>>,
              <<"file", {"input[name*=resume]"}>> },
      v \in BOOLEAN }

DetectPages ==
  { [elements |-> es, hasSubmit |-> FALSE] :
      es \in UNION { [1..n -> DetectCatalog] : n \in 1..MaxElements } }

\* a tab on Indeed showing such a page: the content script has been constructed
InitDetect ==
  /\ QuietSW
  /\ tabUrl \in {u \in TabUrls : HostOf(u) = "ca.indeed.com"}
  /\ \E page \in DetectPages : cs = Constructed(page, tabUrl)
  /\ csInbox = 0
  /\ gate = NoGate
  /\ popupMessage = ""
  /\ stimuli = 0
  /\ analysis = NoAnalysis

NextDetect ==
  \/ \E u \in TabUrls : Navigate(u)
  \/ DetectTimer

\* field detection on navigation within Indeed
SpecDetect == InitDetect /\ [][NextDetect]_vars

\* the two domain tests, applied to every URL
InitGate == QuietSW /\ QuietCS

SpecGate == InitGate /\ [][NextGate]_vars

\* calculateMatchScore over profile skills and job descriptions
InitScore ==
  /\ QuietSW /\ counter = [d \in Dates |-> 0]
  /\ QuietTab
  /\ \E sk \in SkillLists, d \in Descriptions : analysis = Analysis(sk, d)

NextScore == AnalyzeJobRequirements

SpecScore == InitScore /\ [][NextScore]_vars

\* ------------------------------------------------------ quota properties
\* the configured daily maximum: the stored profile's, or the default profile's
ConfiguredDailyMax == StoredOrDefault(syncProfile).preferences.maxApplicationsPerDay

InFlight(i) == tasks[i].pc \notin {"idle", "done"}

\* applicationSubmitted messages fully handled, counted on date d
HandledOn(d) ==
  Cardinality({i \in 1..MaxMsgs : /\ tasks[i].kind = "applicationSubmitted"
                                  /\ tasks[i].pc = "done"
                                  /\ tasks[i].today = d})

\* C1: for every date, the stored daily counter never exceeds the configured
\* daily maximum, whatever number of applicationSubmitted messages is handled.
C1_CounterWithinDailyMax ==
  \A d \in Dates : counter[d] <= ConfiguredDailyMax

\* C4: the read-increment-write of the counter is atomic: once every received
\* message is fully handled, the counter of each date has grown by exactly the
\* number of messages handled on that date.
C4_NoLostUpdate ==
  (\A i \in 1..MaxMsgs : ~InFlight(i)) => \A d \in Dates : counter[d] = HandledOn(d)

\* C9: the stored counter of a date never decreases.
C9_CounterMonotonic ==
  [][\A d \in Dates : counter'[d] >= counter[d]]_vars

\* ------------------------------------------- absent safety configuration
\* no profile is stored and none was ever handed to saveUserProfile
ConfigAbsent ==
  /\ syncProfile = NoProfile
  /\ \A i \in 1..MaxMsgs : tasks[i].kind # "saveUserProfile"

SubmitClicks(c) == c.pageClicks + c.ownClicks

\* C2: every submit-button click of submitApplication follows an approval of
\* the confirm() prompt given for it, and a dismissed prompt dispatches no
\* click, whatever the profile's autoSubmit and requireConfirmation say.
C2_ClickOnlyAfterApproval ==
  SubmitClicks(cs) <= cs.approved

\* a click was dispatched after an approval although the profile asks for
\* auto-submit without confirmation
C2_Witness ==
  /\ cs.userProfile # NoProfile
  /\ cs.userProfile.preferences.autoSubmit
  /\ ~cs.userProfile.preferences.requireConfirmation
  /\ cs.approved > 0
  /\ SubmitClicks(cs) = cs.approved

\* C3: the counter is checked before any submit click: a step that dispatches
\* a click is taken only while today's counter is below the daily maximum.
C3_ClickOnlyBelowQuota ==
  [][SubmitClicks(cs') > SubmitClicks(cs) =>
       counter[ToDateString(now)] < ConfiguredDailyMax]_vars

\* ----------------------------------------------------- domain properties
\* exact or suffix match of the page's host against the whitelist
HostWhitelisted(url) ==
  \E i \in DOMAIN whitelist : EndsWith(HostOf(url), whitelist[i])

\* C5: each domain test (the service worker's and the popup's) allows a URL exactly when its host is
\* a whitelist entry or ends with one; a URL holding a whitelisted domain
\* elsewhere is denied.
C5_GateMatchesHost ==
  gate.url # "" => (gate.allow <=> HostWhitelisted(gate.url))

\* C6: on a page whose host is not whitelisted no field is ever written and no
\* submit click is ever dispatched, whatever triggers the fill.
C6_NoWritesOffWhitelist ==
  ~HostWhitelisted(tabUrl) =>
    /\ \A i \in DOMAIN cs.dom : cs.dom[i].value = ""
    /\ cs.lastFill.attempted = {}
    /\ SubmitClicks(cs) = 0

\* ------------------------------------------------------- fill properties
\* C8: the submit button is enabled only while the most recent executeAutoFill
\* ended without an error and every write it started, typing included, is
\* complete.
C8_SubmitEnabledAfterCompleteFill ==
  cs.submitEnabled =>
    /\ cs.lastFill.ran
    /\ cs.lastFill.errors = {}
    /\ cs.typers = EmptyBag

\* the fields executeAutoFill has to fill: detected, with a truthy value
DueFields(c) == {k \in KeySet : c.formFields[k] # 0 /\ getFieldValue(c, k) # ""}

\* those of them whose fillField throws
ThrowingFields(c) ==
  {k \in DueFields(c) : fillFieldThrows(c, c.formFields[k], getFieldValue(c, k))}

\* C10: when fillField throws for a detected field during executeAutoFill,
\* every other detected field is still attempted, exactly the throwing fields
\* are recorded as errors, and no exception leaves executeAutoFill.
C10_FieldFailureIsLocal ==
  [][((StartAutoFill \/ ClickAutoFill \/ ClickConfirmFill)
        /\ cs'.lastFill.ran /\ ThrowingFields(cs) # {}) =>
       /\ cs'.lastFill.attempted = DueFields(cs)
       /\ cs'.lastFill.errors = ThrowingFields(cs)
       /\ ~cs'.lastFill.escaped]_vars

\* a fill in which firstName threw and workAuth was filled all the same
C10_Witness ==
  /\ cs.lastFill.ran
  /\ cs.lastFill.errors = {"firstName"}
  /\ "workAuth" \in cs.lastFill.attempted
  /\ cs.lastFill.filledCount = 1

\* ------------------------------------------------- default daily limit
\* a submission is at its daily-limit check with nothing but defaults configured
AtLimitCheckWithDefaults(i) ==
  /\ syncProfile = NoProfile
  /\ tasks[i].kind = "applicationSubmitted" /\ tasks[i].pc = "limit"

RecordsWritten ==
  {i \in 1..MaxMsgs : /\ tasks[i].kind = "applicationSubmitted"
                      /\ tasks[i].pc \notin {"idle", "rec"}}

\* C16: the audit trail is append-only: every handled applicationSubmitted
\* message adds one new stored record and none is overwritten, so the store
\* holds as many application records as record writes have resolved.
C16_AuditAppendOnly ==
  Cardinality(appRecords) = Cardinality(RecordsWritten)

\* ------------------------------------------------------ fill strategies
\* the order in which the ways of performing a step are to be attempted
StrategyOrder ==
  <<"structural-mutation", "privileged-input", "optical-locate", "scripted-verify">>

\* C11: a field's fill is recorded as failed only after every strategy has
\* been attempted on it, in the order structural-mutation, privileged-input,
\* optical-locate, scripted-verify.
C11_FailedAfterAllStrategies ==
  \A k \in cs.lastFill.errors : cs.lastFill.tried[k] = StrategyOrder

\* ---------------------------------------------------------- fill plans
\* C20: with the detected fields, the profile and the job data unchanged, two
\* runs of executeAutoFill hand the same (key, value) pairs to fillField in
\* the same order, and previewAutoFill shows for each of these keys the value
\* executeAutoFill fills in.
C20_PlanDeterministic ==
  (cs.detected /\ cs.userProfile # NoProfile) =>
    LET first == executeAutoFill(cs)
        second == executeAutoFill(first)
        shown == previewAutoFill(cs).preview
    IN /\ second.lastFill.steps = first.lastFill.steps
       /\ \A n \in DOMAIN first.lastFill.steps :
            shown[first.lastFill.steps[n][1]] = first.lastFill.steps[n][2]

\* executeAutoFill has run twice over the values the preview showed, and
\* both fields were handed to fillField
C20_Witness ==
  /\ cs.lastFill.ran /\ cs.panels = 2
  /\ Len(cs.lastFill.steps) = 2
  /\ \A n \in DOMAIN cs.lastFill.steps :
       cs.preview[cs.lastFill.steps[n][1]] = cs.lastFill.steps[n][2]

\* ------------------------------------------------------ field detection
\* the elements of the page that a selector of key k matches
Matching(c, k) ==
  {i \in DOMAIN c.dom :
     \E n \in DOMAIN Selectors(k) : Selectors(k)[n] \in c.dom[i].sels}

\* the keys for which detection returned a descriptor
Descriptors(c) == {k \in KeySet : c.formFields[k] # 0}

\* C17: detection leaves no matching element out because it is hidden: a key
\* whose selectors match an element of the page has a descriptor.
C17_HiddenFieldsIncluded ==
  cs.detected => \A k \in KeySet : Matching(cs, k) # {} => cs.formFields[k] # 0

\* C18: a run of field detection changes no element of the page and sends
\* nothing.
C18_DetectionIsPure ==
  [][DetectTimer =>
       /\ cs'.dom = cs.dom
       /\ cs'.sent["formFieldsDetected"] = cs.sent["formFieldsDetected"]]_vars

\* C19: detection returns one descriptor for each labeled field of the page,
\* no two descriptors resolve to the same element, and detecting again on the
\* unchanged page gives the same descriptors.
C19_OneDescriptorPerField ==
  cs.detected =>
    /\ Cardinality(Descriptors(cs)) = Cardinality(UNION {Matching(cs, k) : k \in KeySet})
    /\ \A k1, k2 \in Descriptors(cs) :
         k1 # k2 => cs.formFields[k1] # cs.formFields[k2]
    /\ detectFormFields(cs).formFields = cs.formFields

\* ----------------------------------------------------- companion requests
\* C12: a failed companion request is never answered as a success: when the
\* fetch of an uploadFile or takeScreenshot message did not end with an ok
\* response, the response sent for the message does not carry success = true.
C12_FailureNotAnsweredAsSuccess ==
  \A i \in 1..MaxMsgs :
    (/\ tasks[i].kind \in {"uploadFile", "takeScreenshot"}
     /\ tasks[i].pc = "done"
     /\ tasks[i].outcome # "ok") => \A n \in DOMAIN responses[i] : ~responses[i][n].success

\* header and body fields that would carry an auth token
TokenFields == {"Authorization", "X-Auth-Token", "X-API-Key", "token", "auth_token"}

\* C13: every upload or screenshot request sent to the companion carries an
\* auth token.
C13_RequestsCarryToken ==
  \A q \in InFlightRequests :
    q.path \in {"/upload", "/screenshot"} =>
      (q.headers \cup q.body) \cap TokenFields # {}

\* every port some probe loop of the service worker or of a console script lists
ProbedPorts ==
  {ports[n] : n \in DOMAIN ports} \cup {fixPorts[n] : n \in DOMAIN fixPorts}
    \cup {forcePorts[n] : n \in DOMAIN forcePorts}

\* a URL on the loopback interface, on one of the probed ports
IsLoopbackUrl(url) ==
  \E port \in ProbedPorts : url = "http://127.0.0.1:" \o NumberToString(port)

\* C14: localCompanionUrl is always http://127.0.0.1:<port> with <port> one of
\* the probed ports, and so is the base of every health request in flight and
\* of the upload and screenshot requests built from it.
C14_CompanionIsLoopback ==
  /\ IsLoopbackUrl(localCompanionUrl)
  /\ \A q \in InFlightRequests \cup {UploadRequest, ScreenshotRequest} :
       IsLoopbackUrl(q.base)

\* a probe answered ok on a port other than the default has moved the URL
C14_Witness ==
  /\ localCompanionUrl # "http://127.0.0.1:8001"
  /\ \E r \in 0..MaxMsgs : checks[r].pc \in {"store", "done"} /\ checks[r].result
  /\ InFlightRequests # {}

\* ------------------------------------------------- typing and its events
\* the (key, value) pairs the last executeAutoFill handed to fillField for an
\* element that is typed into, and whose typing did not throw
TypedSteps(c) ==
  {<<c.lastFill.steps[n][1], c.lastFill.steps[n][2]>> : n \in
     {m \in DOMAIN c.lastFill.steps :
        /\ c.formFields[c.lastFill.steps[m][1]] # 0
        /\ c.dom[c.formFields[c.lastFill.steps[m][1]]].type \notin {"file", "select-one"}
        /\ c.lastFill.steps[m][1] \notin c.lastFill.errors}}

\* C26: once fillField(element, value) has run and every typing timer has
\* fired, element.value is exactly value, whatever executeAutoFill runs came
\* before, one started while typing was still going on included.
C26_TypedValueIsExact ==
  cs.typers = EmptyBag =>
    \A step \in TypedSteps(cs) : cs.dom[cs.formFields[step[1]]].value = step[2]

\* C27: the input, change and blur events fillField dispatches at its end
\* find the element holding the complete value.
C27_EventsAfterCompleteValue ==
  \A step \in TypedSteps(cs) : cs.dom[cs.formFields[step[1]]].notified = step[2]

\* C28: when a resume file field was detected and the profile has a resume
\* path, an executeAutoFill run has sent uploadFile to the background.
C28_ResumeUploadRequested ==
  (/\ cs.lastFill.ran
   /\ cs.formFields["resume"] # 0
   /\ cs.userProfile # NoProfile /\ cs.userProfile.resumePath # "")
    => cs.sent["uploadFile"] > 0

\* ------------------------------------------------- the cached profile
\* no profile operation is pending: the constructor's load has resolved and
\* every handler has returned
ProfileOperationsFinished ==
  loadPc = "done" /\ \A i \in 1..MaxMsgs : ~InFlight(i)

\* C24: once every pending operation has finished, the cached userProfile is
\* the profile last written to chrome.storage.sync, for every interleaving of
\* getUserProfile / loadUserProfile with saveUserProfile.
C24_CacheEqualsStored ==
  (/\ ProfileOperationsFinished
   /\ \E i \in 1..MaxMsgs : tasks[i].kind = "saveUserProfile")
    => swProfile = syncProfile

\* ------------------------------------------- checkLocalCompanion runs
\* C21: every checkLocalCompanion run terminates: each health probe is
\* answered or cancelled at its timeout, the ports are probed in list order,
\* each at most once, and the run ends having written companionStatus.
C21_CheckTerminates ==
  /\ [][\A r \in 0..MaxMsgs :
          checks[r].pc = "probe" =>
            checks'[r].idx \in {checks[r].idx, checks[r].idx + 1}]_vars
  /\ \A r \in 0..MaxMsgs :
       (checks[r].pc = "probe") ~>
         (checks[r].pc = "done" /\ companionStore.status # Undefined)

\* the constructor's run has probed every listed port in vain and has returned
\* false with companionStatus false written
C21_Witness ==
  /\ checks[0].pc = "done" /\ ~checks[0].result
  /\ checks[0].idx = Len(ports)
  /\ companionStore.status = "false"

\* C29: when a checkLocalCompanion run returns, the stored companionStatus is
\* the value it returns; when that is true, localCompanionUrl is the URL of
\* the stored companionPort, the first port that answered the run with OK.
C29_StoreMatchesReturn ==
  [][\A r \in 0..MaxMsgs :
       (checks[r].pc = "store" /\ checks'[r].pc = "done") =>
         IF checks[r].result
         THEN /\ companionStore'.status = "true"
              /\ companionStore'.port = ports[checks[r].idx]
              /\ localCompanionUrl' = LoopbackUrl(companionStore'.port)
         ELSE companionStore'.status = "false"]_vars

\* ------------------------------------------------- one response a message
\* the response handleMessage owes a returned invocation
ResponseOwed(task) ==
  IF task.kind \notin KnownActions THEN Failed("Unknown action")
  ELSE IF task.outcome = "threw" THEN Failed(JobIdOfUndefined)
  ELSE Succeeded

C25_LimitFollowsSetting ==
  \A i \in 1..MaxMsgs :
    (/\ tasks[i].kind = "applicationSubmitted" /\ tasks[i].pc = "limit"
     /\ \E j \in 1..(i - 1) : tasks[j].kind = "settingsUpdated"
     /\ \A j \in (i + 1)..MaxMsgs : tasks[j].kind # "settingsUpdated")
      => tasks[i].profile.preferences.maxApplicationsPerDay
           = syncSettings.maxDailyApplications

\* -------------------------------------------------- profile handshake
\* C22: after the content script has sent getUserProfile it eventually holds
\* a profile, and on an application page the auto-fill controls are
\* eventually created.
C22_HandshakeCompletes ==
  (cs.sent["getUserProfile"] > 0) ~>
    (/\ cs.userProfile # NoProfile
     /\ Includes(tabUrl, "/apply?") => cs.panels > 0)

\* ------------------------------------------------------- match score
\* C30: calculateMatchScore returns an integer from 0 to 100 for every
\* combination of profile skills and required skills, the case where no
\* required skill was found included.
C30_ScoreIsPercentage ==
  analysis.scored =>
    ~analysis.matchScore.nan /\ analysis.matchScore.value \in 0..100

====
